---------------------------- MODULE Spec2Model ----------------------------
(***************************************************************************)
(* A model of bip39-rs, src/src/mnemonic.rs: the Mnemonic constructors     *)
(* (new, from_entropy, from_entropy_hex, from_string), validate and the    *)
(* internal decoder Mnemonic::entropy, over the sizes of the program       *)
(* (11-bit groups, 128..256 entropy bits, word lists of 2048 words).       *)
(*                                                                         *)
(* Strings are sequences of character codes, byte buffers are sequences    *)
(* of 0..255, bit vectors are sequences of BOOLEAN.                        *)
(*                                                                         *)
(* The modules mnemonic_type, util, crypto, seed and error and the word    *)
(* list data (english.json) are not part of the sources at hand; they are  *)
(* modelled from the specification and the calls made to them.             *)
(***************************************************************************)
EXTENDS Integers, Sequences, FiniteSets, TLC

(***************************************************************************)
(* Bounds of the model.                                                    *)
(***************************************************************************)
\* entropy buffers are drawn from the patterns 0..MaxPattern
MaxPattern == 2

(***************************************************************************)
(* Characters.                                                             *)
(***************************************************************************)
SPACE == 32

IsLower(c) == c >= 97 /\ c <= 122

IsUpper(c) == c >= 65 /\ c <= 90

\* the letter c in the other case; any other character unchanged
SwapCase(c) == IF IsLower(c) THEN c - 32 ELSE IF IsUpper(c) THEN c + 32 ELSE c

(***************************************************************************)
(* Results: Ok(value), Err(kind), or a panic (unwrap, index, assert!).     *)
(***************************************************************************)
Ok(v) == [kind |-> "Ok", value |-> v]

Err(e) == [kind |-> "Err", error |-> e]

Panic(msg) == [kind |-> "Panic", message |-> msg]

(***************************************************************************)
(* MnemonicType (mnemonic_type.rs): the five configurations.               *)
(***************************************************************************)
MnemonicTypes == {"Type12Words", "Type15Words", "Type18Words", "Type21Words", "Type24Words"}

word_count(mnemonic_type) ==
    CASE mnemonic_type = "Type12Words" -> 12
      [] mnemonic_type = "Type15Words" -> 15
      [] mnemonic_type = "Type18Words" -> 18
      [] mnemonic_type = "Type21Words" -> 21
      [] mnemonic_type = "Type24Words" -> 24

entropy_bits(mnemonic_type) ==
    CASE mnemonic_type = "Type12Words" -> 128
      [] mnemonic_type = "Type15Words" -> 160
      [] mnemonic_type = "Type18Words" -> 192
      [] mnemonic_type = "Type21Words" -> 224
      [] mnemonic_type = "Type24Words" -> 256

checksum_bits(mnemonic_type) == entropy_bits(mnemonic_type) \div 32

for_word_count(n) ==
    IF \E t \in MnemonicTypes : word_count(t) = n
    THEN Ok(CHOOSE t \in MnemonicTypes : word_count(t) = n)
    ELSE Err("InvalidWordCount")

(***************************************************************************)
(* str::split(" "): the pieces between single spaces; an empty string      *)
(* gives one empty piece, two spaces in a row give an empty piece.         *)
(***************************************************************************)
\* the pieces of s from position start on
RECURSIVE SplitFrom(_, _)
SplitFrom(s, start) ==
    LET stop == CHOOSE j \in start..(Len(s) + 1) :
                    /\ j = Len(s) + 1 \/ s[j] = SPACE
                    /\ \A l \in start..(j - 1) : s[l] # SPACE
    IN  IF stop > Len(s) THEN <<SubSeq(s, start, Len(s))>>
        ELSE <<SubSeq(s, start, stop - 1)>> \o SplitFrom(s, stop + 1)

split(s) == SplitFrom(s, 1)

\* [&str]::join(" ")
RECURSIVE join(_)
join(words) ==
    IF Len(words) = 0 THEN <<>>
    ELSE IF Len(words) = 1 THEN words[1]
    ELSE words[1] \o <<SPACE>> \o join(Tail(words))

\* MnemonicType::for_phrase: the type for the number of words of the phrase
for_phrase(phrase) == for_word_count(Len(split(phrase)))

(***************************************************************************)
(* Word list data.  Word(i) is the i-th word of the synthetic vocabulary:  *)
(* three lower-case letters, pairwise distinct for distinct i < 26^3.      *)
(***************************************************************************)
Word(i) == <<97 + (i \div 676), 97 + ((i \div 26) % 26), 97 + (i % 26)>>

\* the deserialized content of every word list file: a WordList's words
Files ==
    [ p \in {"english.json", "short.json", "duplicate.json", "long.json"} |->
        CASE p = "english.json" -> [i \in 1..2048 |-> Word(i - 1)]
          [] p = "short.json" -> [i \in 1..2047 |-> Word(i - 1)]
          [] p = "duplicate.json" -> [i \in 1..2048 |-> Word(IF i = 2047 THEN 2047 ELSE i - 1)]
          [] p = "long.json" -> [i \in 1..2049 |-> Word(i - 1)] ]

WordLists == DOMAIN Files

\* WordList::gen_wordmap: insert (word, i as u16) in order; a later insert of
\* the same word replaces the earlier one
RECURSIVE InsertAll(_, _, _)
InsertAll(words, lo, hi) ==
    IF lo > hi THEN <<>>
    ELSE IF lo = hi THEN [w \in {words[lo]} |-> (lo - 1) % 65536]
    ELSE LET mid == (lo + hi) \div 2
             first == InsertAll(words, lo, mid)
             later == InsertAll(words, mid + 1, hi)
         IN  [w \in DOMAIN first \cup DOMAIN later |->
                IF w \in DOMAIN later THEN later[w] ELSE first[w]]

\* a gen_wordmap that numbers the words from 1
gen_wordmap_from_one(words) ==
    LET word_map == InsertAll(words, 1, Len(words))
    IN  [w \in DOMAIN word_map |-> (word_map[w] + 1) % 65536]

gen_wordmap(words) == InsertAll(words, 1, Len(words))

\* the word map of each word list, as Mnemonic::entropy builds it on entry
WordMap == [p \in WordLists |-> gen_wordmap(Files[p])]

\* a HashMap::get that ignores the case of the letters
get_ignoring_case(word_map, word) ==
    LET lower == [k \in 1..Len(word) |-> IF IsUpper(word[k]) THEN word[k] + 32 ELSE word[k]]
    IN  IF lower \in DOMAIN word_map THEN <<word_map[lower]>> ELSE <<>>

\* HashMap::get: Some(n) for a word of the map, None for any other string
get(word_map, word) == IF word \in DOMAIN word_map THEN <<word_map[word]>> ELSE <<>>

(***************************************************************************)
(* Bits and bytes.                                                         *)
(***************************************************************************)
\* 2^k for k in 0..15
Pow2(k) == <<1, 2, 4, 8, 16, 32, 64, 128, 256, 512, 1024, 2048, 4096, 8192, 16384, 32768>>[k + 1]

\* util::bit_from_u16_as_u11: bit `position` (0 = most significant) of the
\* low 11 bits of input
bit_from_u16_as_u11(input, position) ==
    IF position < 11 THEN (input \div Pow2(10 - position)) % 2 = 1 ELSE FALSE

\* bit q (0 = the most significant bit of the first byte) of a byte buffer
BitAt(bytes, q) == (bytes[(q \div 8) + 1] \div Pow2(7 - (q % 8))) % 2

RECURSIVE ReadBits(_, _, _)
ReadBits(bytes, position, bit_count) ==
    IF bit_count = 0 THEN 0
    ELSE 2 * ReadBits(bytes, position, bit_count - 1) + BitAt(bytes, position + bit_count - 1)

\* the bits the loop over the words pushes, from word i on: for each word
\* bit_from_u16_as_u11(n, i) for i in 0..11, in this order
RECURSIVE PushWords(_, _, _)
PushWords(word_map, words, i) ==
    IF i > Len(words) THEN <<>>
    ELSE LET n == get(word_map, words[i])[1]
         IN  [k \in 1..11 |-> bit_from_u16_as_u11(n, k - 1)] \o PushWords(word_map, words, i + 1)

\* a read_u16 that takes the first bit read as the least significant
read_u16_lsb_first(bytes, position, bit_count) ==
    IF position + bit_count > 8 * Len(bytes) THEN Err("NotEnoughData")
    ELSE Ok(LET b(j) == BitAt(bytes, position + j)
            IN  b(0) + 2 * b(1) + 4 * b(2) + 8 * b(3) + 16 * b(4) + 32 * b(5) + 64 * b(6)
                + 128 * b(7) + 256 * b(8) + 512 * b(9) + 1024 * b(10))

\* BitReader::read_u16 at a reader position: the next bit_count bits, most
\* significant first, or an error when the buffer has fewer bits left
read_u16(bytes, position, bit_count) ==
    IF position + bit_count > 8 * Len(bytes) THEN Err("NotEnoughData")
    ELSE Ok(ReadBits(bytes, position, bit_count))

\* BitVec::from_bytes: eight bits a byte, most significant first
from_bytes(bytes) == [q \in 1..(8 * Len(bytes)) |-> BitAt(bytes, q - 1) = 1]

\* a skip(n).take(k) that skips one element more
skip_take_one_more(v, n, k) == SubSeq(v, n + 2, IF n + 1 + k < Len(v) THEN n + 1 + k ELSE Len(v))

\* Iterator::skip(n).take(k) over a vector
skip_take(v, n, k) ==
    LET from == IF n < Len(v) THEN n + 1 ELSE Len(v) + 1
        to == IF n + k < Len(v) THEN n + k ELSE Len(v)
    IN  SubSeq(v, from, to)

\* bit i (from 1) of a bit vector as a number; 0 past its end
BitValue(bits, i) == IF i <= Len(bits) /\ bits[i] THEN 1 ELSE 0

\* BitVec::to_bytes: eight bits a byte, most significant first, the last
\* byte padded with zero bits
to_bytes(bits) ==
    [b \in 1..((Len(bits) + 7) \div 8) |->
        LET i == 8 * (b - 1)
        IN  128 * BitValue(bits, i + 1) + 64 * BitValue(bits, i + 2)
            + 32 * BitValue(bits, i + 3) + 16 * BitValue(bits, i + 4)
            + 8 * BitValue(bits, i + 5) + 4 * BitValue(bits, i + 6)
            + 2 * BitValue(bits, i + 7) + BitValue(bits, i + 8)]

(***************************************************************************)
(* Primitives of the crypto library.  sha256 stands for the hash: a fixed  *)
(* function from byte buffers to 32-byte digests.  The seed is kept as the *)
(* term of its derivation, so that two seeds are equal exactly when they   *)
(* were derived from the same phrase and password.                         *)
(***************************************************************************)
RECURSIVE WeightedSum(_, _)
WeightedSum(bytes, i) ==
    IF i > Len(bytes) THEN 0 ELSE (i * i + 3) * (bytes[i] + 1) + WeightedSum(bytes, i + 1)

sha256(bytes) ==
    LET s == WeightedSum(bytes, 1)
    IN  [j \in 1..32 |-> (s * (2 * j - 1) + 89 * j + (s \div 256) + (s \div 16)) % 256]

\* Seed::generate: PBKDF2-HMAC-SHA512 of the phrase bytes, salted with
\* "mnemonic" followed by the password
SeedGenerate(bytes, password) ==
    [kdf |-> "PBKDF2-HMAC-SHA512", password |-> bytes, salt |-> <<"mnemonic", password>>]

\* data_encoding::HEXUPPER
HexDigit(d) == IF d < 10 THEN 48 + d ELSE 55 + d

IsHexUpper(c) == (c >= 48 /\ c <= 57) \/ (c >= 65 /\ c <= 70)

HexValue(c) == IF c <= 57 THEN c - 48 ELSE c - 55

HexEncode(bytes) ==
    [k \in 1..(2 * Len(bytes)) |->
        IF k % 2 = 1 THEN HexDigit(bytes[(k + 1) \div 2] \div 16)
        ELSE HexDigit(bytes[k \div 2] % 16)]

HexDecode(hex) ==
    IF Len(hex) % 2 # 0 \/ \E k \in 1..Len(hex) : ~IsHexUpper(hex[k])
    THEN Err("DecodeError")
    ELSE Ok([b \in 1..(Len(hex) \div 2) |-> 16 * HexValue(hex[2 * b - 1]) + HexValue(hex[2 * b])])

(***************************************************************************)
(* Mnemonic::entropy: the checksum is calculated and verified and the      *)
(* entropy returned.                                                       *)
(***************************************************************************)
\* the words are looked up, the bits pushed and the checksum verified, for a
\* phrase of type mnemonic_type
decode_words(m, mnemonic_type, word_list) ==
    LET entropy_bits_ == entropy_bits(mnemonic_type)
        checksum_bits_ == checksum_bits(mnemonic_type)
        word_map == WordMap[word_list]
        words == split(m)
    IN  IF \E i \in 1..Len(words) : get(word_map, words[i]) = <<>>
        THEN Err("InvalidWord")
        ELSE
        LET to_validate == PushWords(word_map, words, 1)
            checksum_to_validate == skip_take(to_validate, entropy_bits_, checksum_bits_)
            entropy_to_validate == skip_take(to_validate, 0, entropy_bits_)
            entropy_ == to_bytes(entropy_to_validate)
            hash == sha256(entropy_)
            entropy_hash_to_validate_bits == from_bytes(hash)
            new_checksum == skip_take(entropy_hash_to_validate_bits, 0, checksum_bits_)
        IN  IF Len(checksum_to_validate) # checksum_bits_
            THEN Panic("invalid checksum size")
            ELSE IF Len(entropy_to_validate) # entropy_bits_
            THEN Panic("invalid entropy size")
            ELSE IF Len(new_checksum) # checksum_bits_
            THEN Panic("invalid new checksum size")
            ELSE IF ~(new_checksum = checksum_to_validate)
            THEN Err("InvalidChecksum")
            ELSE Ok(entropy_)

\* an entropy that looks the words up before it counts them
entropy_words_first(string, word_list) ==
    LET m == string
        mnemonic_type == for_phrase(m)
    IN  IF \E i \in 1..Len(split(m)) : get(WordMap[word_list], split(m)[i]) = <<>>
        THEN Err("InvalidWord")
        ELSE IF mnemonic_type.kind # "Ok" THEN mnemonic_type
        ELSE decode_words(m, mnemonic_type.value, word_list)

entropy(string, word_list) ==
    LET m == string
        mnemonic_type == for_phrase(m)
    IN  IF mnemonic_type.kind # "Ok" THEN mnemonic_type
        ELSE decode_words(m, mnemonic_type.value, word_list)

\* Mnemonic::from_string
from_string(string, word_list, password) ==
    LET m == string
        p == password
        entropy_ == entropy(m, word_list)
    IN  IF entropy_.kind # "Ok" THEN entropy_
        ELSE Ok([string |-> m,
                 seed |-> SeedGenerate(m, p),
                 word_list |-> word_list,
                 entropy |-> entropy_.value])

\* Mnemonic::validate
validate(string, word_list) ==
    LET e == entropy(string, word_list)
    IN  IF e.kind = "Ok" THEN Ok(<<>>) ELSE e

\* an entropy length in bytes
entropy_length_bytes(entropy_) == Len(entropy_)

\* entropy.len() * 8
entropy_length_bits(entropy_) == Len(entropy_) * 8

\* Mnemonic::from_entropy
from_entropy(entropy_, mnemonic_type, word_list, password) ==
        IF entropy_length_bits(entropy_) # entropy_bits(mnemonic_type)
        THEN Err("InvalidEntropyLength")
        ELSE
        LET num_words == word_count(mnemonic_type)
            entropy_hash == sha256(entropy_)
            combined == entropy_ \o entropy_hash
            list == Files[word_list]
            n == [i \in 1..num_words |-> read_u16(combined, 11 * (i - 1), 11)]
            stops == {i \in 1..num_words : n[i].kind # "Ok" \/ n[i].value >= Len(list)}
        IN  IF stops # {}
            THEN LET i == CHOOSE k \in stops : \A l \in stops : k <= l
                 IN  IF n[i].kind # "Ok" THEN Panic("called unwrap on an Err value")
                     ELSE Panic("index out of bounds")
            ELSE LET words == [i \in 1..num_words |-> list[n[i].value + 1]]
                     string == join(words)
                 IN  from_string(string, word_list, password)

\* Mnemonic::from_entropy_hex
from_entropy_hex(hex, mnemonic_type, word_list, password) ==
    LET bytes == HexDecode(hex)
    IN  IF bytes.kind # "Ok" THEN bytes
        ELSE from_entropy(bytes.value, mnemonic_type, word_list, password)

\* the paths Mnemonic::new may be given: the word list files, a path with no
\* file, and a file that is no word list
Paths == WordLists \cup {"missing.json", "garbage.json"}

\* Mnemonic::new; random is what gen_random_bytes returns for the call
new(mnemonic_type, path, password, random) ==
    IF path = "missing.json" THEN Err("ProvisioningError")
    ELSE IF path \notin WordLists THEN Err("ProvisioningError")
    ELSE IF random.kind # "Ok" THEN random
    ELSE from_entropy(random.value, mnemonic_type, path, password)

(***************************************************************************)
(* The inputs of the calls.                                                *)
(***************************************************************************)
\* entropy buffer number p of len bytes: all 255 (p = 0), all 0 (p = 1),
\* and bytes that vary with the position (p > 1)
EntropySample(p, len) == [i \in 1..len |-> (255 + p * (1 + (p - 1) * 37 * i)) % 256]

\* the byte lengths of the entropy buffers: the five supported and others
EntropyLengths == {16, 20, 24, 28, 32} \cup {0, 15, 17, 33}

Entropies == {EntropySample(p, len) : p \in 0..MaxPattern, len \in EntropyLengths}

Passwords == {"", "TREZOR"}

\* a hex string with its letters in lower case
Lowered(hex) == [k \in 1..Len(hex) |-> IF IsUpper(hex[k]) THEN hex[k] + 32 ELSE hex[k]]

\* the hex strings given to from_entropy_hex: the upper-case encoding of a
\* buffer, the same in lower case, and the same with its last digit missing
HexInputs ==
    UNION {{HexEncode(e), Lowered(HexEncode(e)), SubSeq(HexEncode(e), 1, 2 * Len(e) - 1)} :
            e \in Entropies}

\* what gen_random_bytes(len) may return
RandomOutcomes(len) ==
    {Ok(EntropySample(p, len)) : p \in 0..MaxPattern} \cup {Err("ProvisioningError")}

\* a word that is in no word list but long.json, where it is the last one
ExtraWord == Word(2048)

\* the phrase with character k in the other case
SwapCaseAt(string, k) == [string EXCEPT ![k] = SwapCase(string[k])]

\* the first m words of the phrase
TakeWords(string, m) == join(SubSeq(split(string), 1, m))

\* the phrase with word i replaced by w
ReplaceWord(string, i, w) == join([split(string) EXCEPT ![i] = w])

\* The phrase read as decode reads it, 11 bits a word, with bit k (from 0)
\* flipped, and the group of that bit written back as the word at its index.
\* An index past the end of the list gives no phrase.
FlipBit(string, word_list, k) ==
    LET words == split(string)
        g == (k \div 11) + 1
        v == WordMap[word_list][words[g]] % 2048
        bit == Pow2(10 - (k % 11))
        flipped == IF (v \div bit) % 2 = 1 THEN v - bit ELSE v + bit
    IN  IF flipped < Len(Files[word_list])
        THEN {ReplaceWord(string, g, Files[word_list][flipped + 1])}
        ELSE {}

\* the strings a caller who holds a valid phrase gives to validate
Corruptions(h) ==
    LET n == Len(split(h.string))
    IN  {h.string}
        \cup UNION {FlipBit(h.string, h.word_list, k) : k \in 0..(11 * n - 1)}
        \cup {SwapCaseAt(h.string, k) : k \in {c \in 1..Len(h.string) : h.string[c] # SPACE}}
        \cup {ReplaceWord(h.string, i, ExtraWord) : i \in 1..n}
        \cup {TakeWords(h.string, m) : m \in 0..(n - 1)}
        \cup {ReplaceWord(TakeWords(h.string, m), 1, ExtraWord) : m \in 1..(n - 1)}
        \cup {h.string \o <<SPACE>> \o w : w \in {Word(0), ExtraWord, <<>>}}
        \cup {TakeWords(h.string, n - 1) \o <<SPACE>>}

\* the strings a caller who holds a valid phrase gives to from_string
Retyped(h) ==
    LET n == Len(split(h.string))
    IN  {h.string, SwapCaseAt(h.string, 1), TakeWords(h.string, n - 1)}
        \cup {ReplaceWord(h.string, i, ExtraWord) : i \in 1..n}

\* a valid english phrase of len entropy bytes, written down beforehand as
\* the test phrases are: the 11-bit groups of the bytes followed by their hash
test_mnemonic(len) ==
    LET bytes == EntropySample(2, len)
        combined == bytes \o sha256(bytes)
    IN  join([i \in 1..((3 * len) \div 4) |->
                Files["english.json"][read_u16(combined, 11 * (i - 1), 11).value + 1]])

\* the test phrases of 12, 15, 18, 21 and 24 words
TestMnemonics == {test_mnemonic(len) : len \in {16, 20, 24, 28, 32}}

\* the 12-word test phrase with its first letter in upper case
invalid_mnemonic == SwapCaseAt(test_mnemonic(16), 1)

\* the strings of a caller who holds no phrase
RawStrings == {<<>>, <<SPACE>>, Word(0), ExtraWord} \cup TestMnemonics \cup {invalid_mnemonic}

(***************************************************************************)
(* The state: a caller's session with the library.                         *)
(***************************************************************************)
VARIABLES
    pc,         \* "idle", "returned" (a constructor returned), "holding" (the
                \* caller keeps a phrase), "checked" (validate or from_string
                \* returned)
    call,       \* the last call: the operation and its arguments
    result,     \* how the last call ended: Ok, Err and its kind, or Panic
    mnemonic,   \* the Mnemonic instance the last call returned, if any
    held        \* the phrase and word list the caller keeps, if any

vars == <<pc, call, result, mnemonic, held>>

NoCall ==
    [op |-> "none", entropy |-> <<>>, hex |-> <<>>, mnemonic_type |-> "",
     word_list |-> "", string |-> <<>>, password |-> "", random |-> "none"]

NoResult == [kind |-> "None", detail |-> ""]

Outcome(r) ==
    [kind |-> r.kind,
     detail |-> IF r.kind = "Err" THEN r.error ELSE IF r.kind = "Panic" THEN r.message ELSE ""]

\* the instance a constructor's result carries
Instance(r) == IF r.kind = "Ok" THEN <<r.value>> ELSE <<>>

Init ==
    /\ pc = "idle"
    /\ call = NoCall
    /\ result = NoResult
    /\ mnemonic = <<>>
    /\ held = <<>>

New(mnemonic_type, path, password, random) ==
    /\ pc = "idle"
    /\ LET r == new(mnemonic_type, path, password, random)
       IN  /\ result' = Outcome(r)
           /\ mnemonic' = Instance(r)
    /\ call' = [NoCall EXCEPT !.op = "new", !.mnemonic_type = mnemonic_type,
                              !.word_list = path, !.password = password,
                              !.random = random.kind,
                              !.entropy = IF random.kind = "Ok" THEN random.value ELSE <<>>]
    /\ pc' = "returned"
    /\ UNCHANGED held

FromEntropy(entropy_, mnemonic_type, word_list, password) ==
    /\ pc = "idle"
    /\ LET r == from_entropy(entropy_, mnemonic_type, word_list, password)
       IN  /\ result' = Outcome(r)
           /\ mnemonic' = Instance(r)
    /\ call' = [NoCall EXCEPT !.op = "from_entropy", !.entropy = entropy_,
                              !.mnemonic_type = mnemonic_type,
                              !.word_list = word_list, !.password = password]
    /\ pc' = "returned"
    /\ UNCHANGED held

FromEntropyHex(hex, mnemonic_type, word_list, password) ==
    /\ pc = "idle"
    /\ LET r == from_entropy_hex(hex, mnemonic_type, word_list, password)
       IN  /\ result' = Outcome(r)
           /\ mnemonic' = Instance(r)
    /\ call' = [NoCall EXCEPT !.op = "from_entropy_hex", !.hex = hex,
                              !.mnemonic_type = mnemonic_type,
                              !.word_list = word_list, !.password = password]
    /\ pc' = "returned"
    /\ UNCHANGED held

\* Mnemonic::get_string: the caller keeps the phrase and lets the instance go
GetString ==
    /\ pc = "returned"
    /\ mnemonic # <<>>
    /\ held' = <<[string |-> mnemonic[1].string, word_list |-> mnemonic[1].word_list]>>
    /\ mnemonic' = <<>>
    /\ call' = NoCall
    /\ result' = NoResult
    /\ pc' = "holding"

Validate(string, word_list) ==
    /\ pc \in {"idle", "holding"}
    /\ result' = Outcome(validate(string, word_list))
    /\ mnemonic' = <<>>
    /\ call' = [NoCall EXCEPT !.op = "validate", !.string = string, !.word_list = word_list]
    /\ pc' = "checked"
    /\ UNCHANGED held

FromString(string, word_list, password) ==
    /\ pc \in {"idle", "holding"}
    /\ LET r == from_string(string, word_list, password)
       IN  /\ result' = Outcome(r)
           /\ mnemonic' = Instance(r)
    /\ call' = [NoCall EXCEPT !.op = "from_string", !.string = string,
                              !.word_list = word_list, !.password = password]
    /\ pc' = "checked"
    /\ UNCHANGED held

\* the caller lets everything go
Drop ==
    /\ pc \in {"returned", "holding", "checked"}
    /\ pc' = "idle"
    /\ call' = NoCall
    /\ result' = NoResult
    /\ mnemonic' = <<>>
    /\ held' = <<>>

Next ==
    \/ pc = "idle" /\ \E t \in MnemonicTypes, p \in Paths, w \in Passwords :
         \E r \in RandomOutcomes(entropy_bits(t) \div 8) : New(t, p, w, r)
    \/ pc = "idle" /\ \E e \in Entropies, t \in MnemonicTypes, l \in WordLists, w \in Passwords :
         FromEntropy(e, t, l, w)
    \/ pc = "idle" /\ \E x \in HexInputs, t \in MnemonicTypes, l \in WordLists, w \in Passwords :
         FromEntropyHex(x, t, l, w)
    \/ GetString
    \/ pc = "idle" /\ \E s \in RawStrings, l \in WordLists : Validate(s, l)
    \/ pc = "idle" /\ \E s \in RawStrings, l \in WordLists, w \in Passwords : FromString(s, l, w)
    \/ pc = "holding" /\ \E s \in Corruptions(held[1]) : Validate(s, held[1].word_list)
    \/ pc = "holding" /\ \E s \in Retyped(held[1]), w \in Passwords :
         FromString(s, held[1].word_list, w)
    \/ Drop

Spec == Init /\ [][Next]_vars

(***************************************************************************)
(* What the claims speak of.                                               *)
(***************************************************************************)
\* the word lists of 2048 pairwise distinct words
WellFormedLists ==
    {l \in WordLists :
        /\ Len(Files[l]) = Pow2(11)
        /\ Cardinality({Files[l][i] : i \in 1..Len(Files[l])}) = Pow2(11)}

\* the word lists with no upper-case letter
LowerCaseLists ==
    {l \in WordLists : \A i \in 1..Len(Files[l]) : \A k \in 1..Len(Files[l][i]) : ~IsUpper(Files[l][i][k])}

\* the last call was a decode: validate or from_string
Decoded == call.op \in {"validate", "from_string"}

\* the last call returned the error e and no instance
Failed(e) == result = [kind |-> "Err", detail |-> e] /\ mnemonic = <<>>

\* the type for an entropy buffer of a supported length
TypeOfEntropy(bytes) == CHOOSE t \in MnemonicTypes : entropy_bits(t) = 8 * Len(bytes)

\* the phrase that from_entropy makes of an entropy buffer, <<>> if it makes none
Encoded(bytes, word_list) ==
    LET r == from_entropy(bytes, TypeOfEntropy(bytes), word_list, "")
    IN  IF r.kind = "Ok" THEN <<r.value.string>> ELSE <<>>

\* s is a phrase of a supported number of words of the list whose trailing
\* bits are the leading bits of the hash of its leading bits
ChecksumValid(s, word_list) ==
    LET words == split(s)
        n == Len(words)
        eb == (32 * n) \div 3
        cb == n \div 3
    IN  /\ n \in {12, 15, 18, 21, 24}
        /\ \A i \in 1..n : words[i] \in DOMAIN WordMap[word_list]
        /\ LET bits == PushWords(WordMap[word_list], words, 1)
               bytes == to_bytes(SubSeq(bits, 1, eb))
           IN  SubSeq(from_bytes(sha256(bytes)), 1, cb) = SubSeq(bits, eb + 1, eb + cb)

\* the bits k for which s may be the phrase orig with bit k flipped: those of
\* the one word in which they differ, or any when they do not differ
FlipCandidates(orig, s) ==
    LET a == split(orig)
        b == split(s)
        diff == {g \in 1..Len(a) : a[g] # b[g]}
    IN  IF Len(a) # Len(b) THEN {}
        ELSE IF diff = {} THEN 0..(11 * Len(a) - 1)
        ELSE IF Cardinality(diff) = 1
        THEN LET g == CHOOSE x \in diff : TRUE IN (11 * (g - 1))..(11 * g - 1)
        ELSE {}

\* s is orig with the case of one letter changed
CaseChanged(orig, s) ==
    /\ Len(s) = Len(orig)
    /\ LET diff == {k \in 1..Len(s) : s[k] # orig[k]}
       IN  /\ Cardinality(diff) = 1
           /\ \A k \in diff : (IsLower(orig[k]) \/ IsUpper(orig[k])) /\ s[k] = SwapCase(orig[k])

(***************************************************************************)
(* C1.  Entropy round trip: for an entropy buffer of a supported length,   *)
(* encoded by from_entropy under a word list of 2048 distinct words (with  *)
(* the type of that length), the call succeeds and the entropy decoded     *)
(* from the phrase it made is the buffer itself.                           *)
(***************************************************************************)
C1_EntropyRoundTrip ==
    (/\ call.op = "from_entropy"
     /\ call.word_list \in WellFormedLists
     /\ 8 * Len(call.entropy) \in {128, 160, 192, 224, 256}
     /\ 8 * Len(call.entropy) = entropy_bits(call.mnemonic_type))
    => /\ result.kind = "Ok"
       /\ mnemonic # <<>>
       /\ mnemonic[1].entropy = call.entropy
       /\ entropy(mnemonic[1].string, call.word_list) = Ok(call.entropy)

C1_Witness ==
    /\ call.op = "from_entropy"
    /\ call.word_list \in WellFormedLists
    /\ call.entropy = EntropySample(2, 32)
    /\ result.kind = "Ok"
    /\ mnemonic # <<>>
    /\ mnemonic[1].entropy = call.entropy

(***************************************************************************)
(* C2.  Phrase round trip: a phrase that decode accepts under a word list  *)
(* is the phrase that from_entropy makes of the decoded entropy under the  *)
(* same word list.                                                         *)
(***************************************************************************)
C2_PhraseRoundTrip ==
    (Decoded /\ result.kind = "Ok")
    => LET e == entropy(call.string, call.word_list)
       IN  e.kind = "Ok" /\ Encoded(e.value, call.word_list) = <<call.string>>

\* the same for the word lists of 2048 distinct words
PhraseRoundTripWellFormed == call.word_list \in WellFormedLists => C2_PhraseRoundTrip

(***************************************************************************)
(* C3.  A single flipped bit is detected: for a valid phrase, read as a    *)
(* sequence of 11 bits a word, the phrase of the same sequence with one    *)
(* bit flipped fails with InvalidChecksum when the bit is of the checksum, *)
(* and fails with InvalidChecksum or decodes to another entropy when the   *)
(* bit is of the entropy; it never decodes to the entropy of the phrase.   *)
(***************************************************************************)
C3_BitFlipDetected ==
    (call.op = "validate" /\ held # <<>>)
    => \A k \in FlipCandidates(held[1].string, call.string) :
         (/\ call.string \in FlipBit(held[1].string, held[1].word_list, k)
          /\ entropy(held[1].string, held[1].word_list).kind = "Ok")
         => LET orig == entropy(held[1].string, held[1].word_list).value
                e == entropy(call.string, call.word_list)
            IN  /\ k >= 8 * Len(orig) => Failed("InvalidChecksum")
                /\ k < 8 * Len(orig) =>
                     \/ Failed("InvalidChecksum")
                     \/ result.kind = "Ok" /\ e.kind = "Ok" /\ e.value # orig

\* the same for the word lists of 2048 distinct words
BitFlipDetectedWellFormed == call.word_list \in WellFormedLists => C3_BitFlipDetected

(***************************************************************************)
(* C4.  A phrase of a supported number of words with a word that is not in *)
(* the word list fails with InvalidWord, and no instance is made; the      *)
(* match is exact: a valid phrase of a lower-case word list with the case  *)
(* of one letter changed fails with InvalidWord.                           *)
(***************************************************************************)
C4_UnknownWord ==
    Decoded =>
      /\ (/\ Len(split(call.string)) \in {12, 15, 18, 21, 24}
          /\ \E i \in 1..Len(split(call.string)) :
               split(call.string)[i] \notin DOMAIN WordMap[call.word_list])
         => Failed("InvalidWord")
      /\ (/\ held # <<>>
          /\ call.word_list \in LowerCaseLists
          /\ CaseChanged(held[1].string, call.string)
          /\ entropy(held[1].string, held[1].word_list).kind = "Ok")
         => Failed("InvalidWord")

C4_Witness ==
    /\ call.op = "validate"
    /\ held # <<>>
    /\ call.word_list = "english.json"
    /\ CaseChanged(held[1].string, call.string)
    /\ call.string[1] # held[1].string[1]
    /\ Len(split(call.string)) = 12
    /\ Failed("InvalidWord")

(***************************************************************************)
(* C5.  A phrase whose number of words is not 12, 15, 18, 21 or 24 fails   *)
(* with InvalidWordCount and no instance is made, whether or not its words *)
(* are in the word list: the words are counted before any is looked up.    *)
(***************************************************************************)
C5_WordCount ==
    (Decoded /\ Len(split(call.string)) \notin {12, 15, 18, 21, 24})
    => Failed("InvalidWordCount")

C5_Witness ==
    /\ Decoded
    /\ Len(split(call.string)) = 14
    /\ \E i \in 1..14 : split(call.string)[i] \notin DOMAIN WordMap[call.word_list]
    /\ Failed("InvalidWordCount")

(***************************************************************************)
(* C6.  A phrase of 12, 15, 18, 21 or 24 words of the word list whose      *)
(* trailing checksum bits are the leading bits of the hash of its leading  *)
(* entropy bits is accepted by from_string and by validate, and the        *)
(* entropy decoded from it is 16, 20, 24, 28 or 32 bytes long.             *)
(***************************************************************************)
C6_ValidAccepted ==
    Decoded =>
      \/ /\ result.kind = "Ok"
         /\ LET e == entropy(call.string, call.word_list)
                n == Len(split(call.string))
            IN  /\ e.kind = "Ok"
                /\ 8 * Len(e.value) = (32 * n) \div 3
                /\ <<n, Len(e.value)>> \in {<<12, 16>>, <<15, 20>>, <<18, 24>>, <<21, 28>>, <<24, 32>>}
                /\ call.op = "from_string" => mnemonic # <<>> /\ mnemonic[1].entropy = e.value
      \/ /\ result.kind # "Ok"
         /\ ~ChecksumValid(call.string, call.word_list)

C6_Witness ==
    /\ call.op = "from_string"
    /\ call.word_list = "english.json"
    /\ call.string \in TestMnemonics
    /\ ChecksumValid(call.string, call.word_list)
    /\ Len(split(call.string)) = 24
    /\ result.kind = "Ok"
    /\ mnemonic # <<>>
    /\ mnemonic[1].entropy = EntropySample(2, 32)

(***************************************************************************)
(* C7.  As claimed: from_entropy fails with InvalidEntropyLength and makes *)
(* no instance for a buffer whose length is not 128, 160, 192, 224 or 256  *)
(* bits, and does not fail with InvalidEntropyLength for a buffer of one   *)
(* of these lengths.                                                       *)
(***************************************************************************)
C7_LengthDecidesAlone ==
    call.op = "from_entropy" =>
      /\ 8 * Len(call.entropy) \notin {128, 160, 192, 224, 256} => Failed("InvalidEntropyLength")
      /\ 8 * Len(call.entropy) \in {128, 160, 192, 224, 256} => ~Failed("InvalidEntropyLength")

(***************************************************************************)
(* C7, amended.  from_entropy is given the type by its caller: it fails    *)
(* with InvalidEntropyLength, and makes no instance, exactly when the bit  *)
(* length of the buffer is not the entropy length of that type; so it      *)
(* fails for every buffer whose length is not 128, 160, 192, 224 or 256    *)
(* bits, whatever the type.                                                *)
(***************************************************************************)
C7_LengthAgainstType ==
    call.op = "from_entropy" =>
      /\ 8 * Len(call.entropy) \notin {128, 160, 192, 224, 256} => Failed("InvalidEntropyLength")
      /\ 8 * Len(call.entropy) # entropy_bits(call.mnemonic_type) => Failed("InvalidEntropyLength")
      /\ 8 * Len(call.entropy) = entropy_bits(call.mnemonic_type)
           => result # [kind |-> "Err", detail |-> "InvalidEntropyLength"]

C7_Witness ==
    /\ call.op = "from_entropy"
    /\ call.mnemonic_type = "Type24Words"
    /\ Len(call.entropy) = 32
    /\ result.kind = "Ok"
    /\ mnemonic # <<>>

(***************************************************************************)
(* C8.  Every word list that reaches the codec holds 2048 pairwise         *)
(* distinct words: a call with a word list of another size fails with      *)
(* InvalidWordListSize, one with a repeated word fails with DuplicateWord, *)
(* and no instance is made with either.                                    *)
(***************************************************************************)
C8_WordListChecked ==
    (call.word_list \in WordLists /\ call.word_list \notin WellFormedLists)
    => IF Len(Files[call.word_list]) # Pow2(11)
       THEN Failed("InvalidWordListSize")
       ELSE Failed("DuplicateWord")

(***************************************************************************)
(* C9.  No call ends in a panic: each returns Ok or an Err of one of the   *)
(* listed kinds.                                                           *)
(***************************************************************************)
C9_NoPanic ==
    call.op # "none" =>
      \/ result.kind = "Ok"
      \/ /\ result.kind = "Err"
         /\ result.detail \in {"InvalidEntropyLength", "InvalidWordCount", "InvalidWord",
                               "InvalidChecksum", "DecodeError", "ProvisioningError"}

\* the same for the word lists of 2048 distinct words
NoPanicWellFormed == call.word_list \in WellFormedLists => C9_NoPanic

(***************************************************************************)
(* C10.  All or nothing: an instance exists exactly when the constructor   *)
(* returned Ok, and every instance is valid: its phrase decodes under its  *)
(* word list to its entropy, from_entropy makes its phrase of its entropy, *)
(* and its seed is derived from its phrase and the password of the call.   *)
(***************************************************************************)
C10_AllOrNothing ==
    /\ mnemonic # <<>> <=> (call.op \in {"new", "from_entropy", "from_entropy_hex", "from_string"}
                            /\ result.kind = "Ok")
    /\ mnemonic # <<>> =>
         LET m == mnemonic[1]
         IN  /\ m.word_list = call.word_list
             /\ entropy(m.string, m.word_list) = Ok(m.entropy)
             /\ Encoded(m.entropy, m.word_list) = <<m.string>>
             /\ m.seed = SeedGenerate(m.string, call.password)

\* the same for the word lists of 2048 distinct words
AllOrNothingWellFormed == call.word_list \in WellFormedLists => C10_AllOrNothing

\* bit q (from 1) of a byte buffer, the most significant bit of a byte first
MsbFirstBit(bytes, q) ==
    LET byte == bytes[((q - 1) \div 8) + 1]
        below == 7 - ((q - 1) % 8)
    IN  (byte \div Pow2(below)) % 2

\* the bit sequence a phrase is laid out from: the bits of the entropy, then
\* the leading bits of its hash, one for every 32 bits of entropy
LayoutBits(bytes) ==
    LET eb == 8 * Len(bytes)
        cb == eb \div 32
        hash == sha256(bytes)
    IN  [q \in 1..(eb + cb) |-> IF q <= eb THEN MsbFirstBit(bytes, q) ELSE MsbFirstBit(hash, q - eb)]

\* group i (from 1) of 11 bits, read as a number, the first bit the most
\* significant
GroupValue(bits, i) ==
    LET b(j) == bits[11 * (i - 1) + j]
    IN  1024 * b(1) + 512 * b(2) + 256 * b(3) + 128 * b(4) + 64 * b(5) + 32 * b(6)
        + 16 * b(7) + 8 * b(8) + 4 * b(9) + 2 * b(10) + b(11)

(***************************************************************************)
(* C11.  Encode bit layout: for an entropy buffer of a supported length    *)
(* (given with the type of that length), the bits of the entropy followed  *)
(* by the leading checksum bits of its hash are word_count groups of 11    *)
(* bits and no more; under a word list of 2048 distinct words a phrase is  *)
(* made, and the phrase made has word_count words, word i being the entry  *)
(* of the word list at the value of group i (most significant bit first,   *)
(* in 0..2047), joined by single spaces with no space before or after.     *)
(***************************************************************************)
C11_EncodeLayout ==
    (/\ call.op \in {"from_entropy", "new"}
     /\ call.word_list \in WordLists
     /\ 8 * Len(call.entropy) = entropy_bits(call.mnemonic_type))
    => LET eb == 8 * Len(call.entropy)
           cb == checksum_bits(call.mnemonic_type)
           n == word_count(call.mnemonic_type)
           bits == LayoutBits(call.entropy)
       IN  /\ eb \in {128, 160, 192, 224, 256}
           /\ n * 11 = eb + cb
           /\ Len(bits) = n * 11
           /\ \A i \in 1..n : GroupValue(bits, i) \in 0..2047
           /\ call.word_list \in WellFormedLists => result.kind = "Ok" /\ mnemonic # <<>>
           /\ mnemonic # <<>> =>
                LET string == mnemonic[1].string
                    words == split(string)
                IN  /\ Len(words) = n
                    /\ \A i \in 1..n : words[i] = Files[call.word_list][GroupValue(bits, i) + 1]
                    /\ string[1] # SPACE
                    /\ string[Len(string)] # SPACE
                    /\ \A k \in 1..(Len(string) - 1) : ~(string[k] = SPACE /\ string[k + 1] = SPACE)

C11_Witness ==
    /\ call.op = "from_entropy"
    /\ call.word_list = "english.json"
    /\ call.entropy = EntropySample(2, 20)
    /\ result.kind = "Ok"
    /\ mnemonic # <<>>
    /\ Len(split(mnemonic[1].string)) = 15
    /\ split(mnemonic[1].string)[15] = Files["english.json"][GroupValue(LayoutBits(call.entropy), 15) + 1]

=============================================================================
